---- MODULE Spec2Model ----
(***************************************************************************)
(* The background delivery worker of tracing-layer-discord (src/worker.rs) *)
(* as a state machine: the unbounded mpsc queue, the worker task with its  *)
(* retry loop, the producers holding cloned senders, and the               *)
(* BackgroundWorker handle with its shutdown() sequence.                   *)
(***************************************************************************)
EXTENDS Integers, Sequences, FiniteSets, TLC

\* const MAX_RETRIES: usize = 10
MAX_RETRIES == 10

\* Bounds of the model: Data messages sent by producers, cloned senders.
MaxData == 2
NumProducers == 1

\* Arrival positions: every send (Data or Shutdown) takes the next one.
Ids == 1..(MaxData + 1)

\* HTTP status codes an endpoint may answer with.
Statuses == {200, 404, 500}

VARIABLES
    queue,      \* the channel's buffer: messages sent and not yet received
    rx_open,    \* TRUE while the worker's ChannelReceiver exists
    producers,  \* number of live cloned ChannelSenders held by producers
    nextId,     \* arrival position of the next message sent
    wpc,        \* worker: "recv", "send", "sleep", "done", "panicked"
    message,    \* arrival position of the Data message in delivery, 0 if none
    retries,    \* the worker's local `retries`
    delay,      \* delay_ms of the sleep in progress
    hpc,        \* handle: "idle", "joining", "returned", "send_panicked",
                \*         "join_panicked", "dropped"
    shutdownId, \* arrival position of the Shutdown sentinel, 0 if not sent
    attempts,   \* history: POST attempts issued, per message
    sleeps,     \* history: backoff sleeps started, per message
    slept,      \* history: total backoff in ms, per message
    dequeued,   \* history: times each message was received by the worker
    outcome,    \* history: how each message's delivery cycle ended
    response,   \* history: status code of the response received, 0 if none
    rejected,   \* history: positions of sends that failed (receiver gone)
    lateSends,  \* history: producer sends made after shutdown() was over
    log         \* observability events emitted by the worker

vars == <<queue, rx_open, producers, nextId, wpc, message, retries, delay,
          hpc, shutdownId, attempts, sleeps, slept, dequeued, outcome,
          response, rejected, lateSends, log>>

hist == <<attempts, sleeps, slept, dequeued, outcome, response>>

\* enum WorkerMessage { Data(MessagePayload), Shutdown }
\* `ser` says whether serde_json::to_string succeeds on the payload.
Data(id, ser) == [tag |-> "Data", id |-> id, ser |-> ser]

Shutdown(id) == [tag |-> "Shutdown", id |-> id]

\* The handle's ChannelSender lives until the BackgroundWorker is dropped or
\* shutdown(self) ends.
HandleSenderLive == hpc \in {"idle", "joining"}

\* shutdown(self) has ended, by a return or by a panic of one of its unwraps.
ShutdownOver == hpc \in {"returned", "send_panicked", "join_panicked"}

\* Number of live senders of the channel.
tx_count == producers + (IF HandleSenderLive THEN 1 ELSE 0)

\* Number of Data messages producers have sent so far.
DataSent == (nextId - 1) - (IF shutdownId # 0 THEN 1 ELSE 0)

RECURSIVE Pow2(_)
Pow2(n) == IF n = 0 THEN 1 ELSE 2 * Pow2(n - 1)

\* let delay_ms = 2u64.pow(retries as u32) * 100;
delay_msLinear(r) == (r + 1) * 100

delay_ms(r) == Pow2(r) * 100

\* while retries < MAX_RETRIES
RetryGuardInclusive(r) == r <= MAX_RETRIES

RetryGuard(r) == r < MAX_RETRIES

\* rx.recv(): the message at the front of the buffer, and what is left.
RecvBack(q) == <<q[Len(q)], SubSeq(q, 1, Len(q) - 1)>>

Recv(q) == <<Head(q), Tail(q)>>

Init ==
    /\ queue = <<>>
    /\ rx_open = TRUE
    /\ producers = NumProducers
    /\ nextId = 1
    /\ wpc = "recv"
    /\ message = 0
    /\ retries = 0
    /\ delay = 0
    /\ hpc = "idle"
    /\ shutdownId = 0
    /\ attempts = [i \in Ids |-> 0]
    /\ sleeps = [i \in Ids |-> 0]
    /\ slept = [i \in Ids |-> 0]
    /\ dequeued = [i \in Ids |-> 0]
    /\ outcome = [i \in Ids |-> "none"]
    /\ response = [i \in Ids |-> 0]
    /\ rejected = {}
    /\ lateSends = 0
    /\ log = <<>>

----------------------------------------------------------------------------
\* Producers

\* A producer sends Data(payload) on its cloned sender. The send fails, and
\* the message is lost, when the receiver is gone.
Enqueue ==
    /\ producers > 0
    /\ DataSent < MaxData
    /\ \E ser \in BOOLEAN :
        IF rx_open
        THEN /\ queue' = Append(queue, Data(nextId, ser))
             /\ UNCHANGED rejected
        ELSE /\ rejected' = rejected \cup {nextId}
             /\ UNCHANGED queue
    /\ nextId' = nextId + 1
    /\ lateSends' = IF ShutdownOver THEN lateSends + 1 ELSE lateSends
    /\ UNCHANGED <<rx_open, producers, wpc, message, retries, delay, hpc,
                   shutdownId, hist, log>>

\* A producer drops its sender.
DropSender ==
    /\ producers > 0
    /\ producers' = producers - 1
    /\ UNCHANGED <<queue, rx_open, nextId, wpc, message, retries, delay, hpc,
                   shutdownId, hist, rejected, lateSends, log>>

----------------------------------------------------------------------------
\* The worker task

\* The top of the retry loop, entered with retries = r for message id:
\* either the next POST is issued or the loop is left and the worker goes
\* back to rx.recv().
LoopTop(id, r) ==
    IF RetryGuard(r)
    THEN /\ wpc' = "send"
         /\ message' = id
         /\ attempts' = [attempts EXCEPT ![id] = @ + 1]
         /\ UNCHANGED outcome
    ELSE /\ wpc' = "recv"
         /\ message' = 0
         /\ outcome' = [outcome EXCEPT ![id] = "dropped"]
         /\ UNCHANGED attempts

\* rx.recv() yields Data(payload): serialize, then enter the retry loop.
\* A payload that does not serialize panics the task (expect).
RecvDataSkipsBad ==
    /\ wpc = "recv"
    /\ rx_open
    /\ queue # <<>>
    /\ LET m == Recv(queue)[1] IN
        /\ m.tag = "Data"
        /\ queue' = Recv(queue)[2]
        /\ dequeued' = [dequeued EXCEPT ![m.id] = @ + 1]
        /\ IF m.ser
           THEN /\ retries' = 0
                /\ LoopTop(m.id, 0)
           ELSE /\ outcome' = [outcome EXCEPT ![m.id] = "unserializable"]
                /\ UNCHANGED <<wpc, message, retries, attempts>>
    /\ UNCHANGED <<rx_open, producers, nextId, delay, hpc, shutdownId, sleeps,
                   slept, response, rejected, lateSends, log>>

RecvData ==
    /\ wpc = "recv"
    /\ rx_open
    /\ queue # <<>>
    /\ LET m == Recv(queue)[1] IN
        /\ m.tag = "Data"
        /\ queue' = Recv(queue)[2]
        /\ dequeued' = [dequeued EXCEPT ![m.id] = @ + 1]
        /\ IF m.ser
           THEN /\ retries' = 0
                /\ LoopTop(m.id, 0)
                /\ UNCHANGED rx_open
           ELSE /\ wpc' = "panicked"
                /\ rx_open' = FALSE
                /\ outcome' = [outcome EXCEPT ![m.id] = "unserializable"]
                /\ UNCHANGED <<message, retries, attempts>>
    /\ UNCHANGED <<producers, nextId, delay, hpc, shutdownId, sleeps, slept,
                   response, rejected, lateSends, log>>

\* rx.recv() yields Shutdown: break; the task ends and drops the receiver.
RecvShutdownContinue ==
    /\ wpc = "recv"
    /\ rx_open
    /\ queue # <<>>
    /\ Recv(queue)[1].tag = "Shutdown"
    /\ queue' = Recv(queue)[2]
    /\ dequeued' = [dequeued EXCEPT ![Recv(queue)[1].id] = @ + 1]
    /\ UNCHANGED <<rx_open, producers, nextId, wpc, message, retries, delay,
                   hpc, shutdownId, attempts, sleeps, slept, outcome, response,
                   rejected, lateSends, log>>

RecvShutdown ==
    /\ wpc = "recv"
    /\ rx_open
    /\ queue # <<>>
    /\ Recv(queue)[1].tag = "Shutdown"
    /\ queue' = Recv(queue)[2]
    /\ dequeued' = [dequeued EXCEPT ![Recv(queue)[1].id] = @ + 1]
    /\ wpc' = "done"
    /\ rx_open' = FALSE
    /\ UNCHANGED <<producers, nextId, message, retries, delay, hpc, shutdownId,
                   attempts, sleeps, slept, outcome, response, rejected,
                   lateSends, log>>

\* rx.recv() yields None: every sender is dropped and the buffer is empty.
RecvClosedLive ==
    /\ wpc = "recv"
    /\ rx_open
    /\ queue = <<>>
    /\ wpc' = "done"
    /\ rx_open' = FALSE
    /\ UNCHANGED <<queue, producers, nextId, message, retries, delay, hpc,
                   shutdownId, hist, rejected, lateSends, log>>

RecvClosedPending ==
    /\ wpc = "recv"
    /\ rx_open
    /\ tx_count = 0
    /\ wpc' = "done"
    /\ rx_open' = FALSE
    /\ UNCHANGED <<queue, producers, nextId, message, retries, delay, hpc,
                   shutdownId, hist, rejected, lateSends, log>>

RecvClosed ==
    /\ wpc = "recv"
    /\ rx_open
    /\ queue = <<>>
    /\ tx_count = 0
    /\ wpc' = "done"
    /\ rx_open' = FALSE
    /\ UNCHANGED <<queue, producers, nextId, message, retries, delay, hpc,
                   shutdownId, hist, rejected, lateSends, log>>

\* send().await is Ok(res): res.text().await.unwrap(), then break. A body
\* that cannot be read panics the task.
HttpOkIgnoresBody ==
    /\ wpc = "send"
    /\ \E st \in Statuses, body \in BOOLEAN :
        /\ response' = [response EXCEPT ![message] = st]
        /\ outcome' = [outcome EXCEPT ![message] =
                            IF body THEN "delivered" ELSE "bodyfail"]
    /\ wpc' = "recv"
    /\ message' = 0
    /\ UNCHANGED <<queue, rx_open, producers, nextId, retries, delay, hpc,
                   shutdownId, attempts, sleeps, slept, dequeued, rejected,
                   lateSends, log>>

HttpOk ==
    /\ wpc = "send"
    /\ \E st \in Statuses, body \in BOOLEAN :
        /\ response' = [response EXCEPT ![message] = st]
        /\ IF body
           THEN /\ wpc' = "recv"
                /\ outcome' = [outcome EXCEPT ![message] = "delivered"]
                /\ UNCHANGED rx_open
           ELSE /\ wpc' = "panicked"
                /\ rx_open' = FALSE
                /\ outcome' = [outcome EXCEPT ![message] = "bodyfail"]
    /\ message' = 0
    /\ UNCHANGED <<queue, producers, nextId, retries, delay, hpc, shutdownId,
                   attempts, sleeps, slept, dequeued, rejected, lateSends, log>>

\* send().await is Err(e): nothing is done with e; the backoff sleep starts.
HttpErrMovesOn ==
    /\ wpc = "send"
    /\ wpc' = "recv"
    /\ message' = 0
    /\ delay' = delay_ms(retries)
    /\ sleeps' = [sleeps EXCEPT ![message] = @ + 1]
    /\ slept' = [slept EXCEPT ![message] = @ + delay_ms(retries)]
    /\ UNCHANGED <<queue, rx_open, producers, nextId, retries, hpc,
                   shutdownId, attempts, dequeued, outcome, response, rejected,
                   lateSends, log>>

HttpErrLastNoSleep ==
    /\ wpc = "send"
    /\ IF RetryGuard(retries + 1)
       THEN /\ wpc' = "sleep"
            /\ delay' = delay_ms(retries)
            /\ sleeps' = [sleeps EXCEPT ![message] = @ + 1]
            /\ slept' = [slept EXCEPT ![message] = @ + delay_ms(retries)]
            /\ UNCHANGED <<message, retries, outcome>>
       ELSE /\ wpc' = "recv"
            /\ message' = 0
            /\ retries' = retries + 1
            /\ outcome' = [outcome EXCEPT ![message] = "dropped"]
            /\ UNCHANGED <<delay, sleeps, slept>>
    /\ UNCHANGED <<queue, rx_open, producers, nextId, hpc, shutdownId,
                   attempts, dequeued, response, rejected, lateSends, log>>

HttpErr ==
    /\ wpc = "send"
    /\ wpc' = "sleep"
    /\ delay' = delay_ms(retries)
    /\ sleeps' = [sleeps EXCEPT ![message] = @ + 1]
    /\ slept' = [slept EXCEPT ![message] = @ + delay_ms(retries)]
    /\ UNCHANGED <<queue, rx_open, producers, nextId, message, retries, hpc,
                   shutdownId, attempts, dequeued, outcome, response, rejected,
                   lateSends, log>>

\* The sleep is over: retries += 1, back to the top of the retry loop.
SleepDoneFatal ==
    /\ wpc = "sleep"
    /\ retries' = retries + 1
    /\ delay' = 0
    /\ IF RetryGuard(retries + 1)
       THEN /\ LoopTop(message, retries + 1)
            /\ UNCHANGED rx_open
       ELSE /\ wpc' = "done"
            /\ rx_open' = FALSE
            /\ message' = 0
            /\ outcome' = [outcome EXCEPT ![message] = "dropped"]
            /\ UNCHANGED attempts
    /\ UNCHANGED <<queue, producers, nextId, hpc, shutdownId, sleeps,
                   slept, dequeued, response, rejected, lateSends, log>>

SleepDoneInterruptible ==
    /\ wpc = "sleep"
    /\ retries' = retries + 1
    /\ delay' = 0
    /\ IF \E k \in 1..Len(queue) : queue[k].tag = "Shutdown"
       THEN /\ wpc' = "recv"
            /\ message' = 0
            /\ outcome' = [outcome EXCEPT ![message] = "dropped"]
            /\ UNCHANGED attempts
       ELSE LoopTop(message, retries + 1)
    /\ UNCHANGED <<queue, rx_open, producers, nextId, hpc, shutdownId, sleeps,
                   slept, dequeued, response, rejected, lateSends, log>>

SleepDone ==
    /\ wpc = "sleep"
    /\ retries' = retries + 1
    /\ delay' = 0
    /\ LoopTop(message, retries + 1)
    /\ UNCHANGED <<queue, rx_open, producers, nextId, hpc, shutdownId, sleeps,
                   slept, dequeued, response, rejected, lateSends, log>>

----------------------------------------------------------------------------
\* The handle

\* self.sender.send(WorkerMessage::Shutdown).unwrap()
ShutdownSendIgnoreErr ==
    /\ hpc = "idle"
    /\ IF rx_open
       THEN /\ queue' = Append(queue, Shutdown(nextId))
            /\ shutdownId' = nextId
            /\ nextId' = nextId + 1
       ELSE UNCHANGED <<queue, shutdownId, nextId>>
    /\ hpc' = "joining"
    /\ UNCHANGED <<rx_open, producers, wpc, message, retries, delay, hist,
                   rejected, lateSends, log>>

ShutdownSend ==
    /\ hpc = "idle"
    /\ IF rx_open
       THEN /\ queue' = Append(queue, Shutdown(nextId))
            /\ shutdownId' = nextId
            /\ nextId' = nextId + 1
            /\ hpc' = "joining"
       ELSE /\ hpc' = "send_panicked"
            /\ UNCHANGED <<queue, shutdownId, nextId>>
    /\ UNCHANGED <<rx_open, producers, wpc, message, retries, delay, hist,
                   rejected, lateSends, log>>

\* self.handle.await.unwrap()
ShutdownJoinNoWait ==
    /\ hpc = "joining"
    /\ hpc' = IF wpc = "panicked" THEN "join_panicked" ELSE "returned"
    /\ UNCHANGED <<queue, rx_open, producers, nextId, wpc, message, retries,
                   delay, shutdownId, hist, rejected, lateSends, log>>

ShutdownJoin ==
    /\ hpc = "joining"
    /\ wpc \in {"done", "panicked"}
    /\ hpc' = IF wpc = "done" THEN "returned" ELSE "join_panicked"
    /\ UNCHANGED <<queue, rx_open, producers, nextId, wpc, message, retries,
                   delay, shutdownId, hist, rejected, lateSends, log>>

\* The BackgroundWorker is dropped without shutdown(): its sender goes, the
\* task is detached.
HandleDrop ==
    /\ hpc = "idle"
    /\ hpc' = "dropped"
    /\ UNCHANGED <<queue, rx_open, producers, nextId, wpc, message, retries,
                   delay, shutdownId, hist, rejected, lateSends, log>>

----------------------------------------------------------------------------
Next ==
    \/ Enqueue
    \/ DropSender
    \/ RecvData
    \/ RecvShutdown
    \/ RecvClosed
    \/ HttpOk
    \/ HttpErr
    \/ SleepDone
    \/ ShutdownSend
    \/ ShutdownJoin
    \/ HandleDrop

Spec == Init /\ [][Next]_vars

\* The runtime schedules the worker task and the shutdown() future fairly:
\* a receive that can complete does, every HTTP attempt and every sleep
\* ends, and the join completes once the task has ended.
FairSpec ==
    /\ Spec
    /\ WF_vars(RecvData)
    /\ WF_vars(RecvShutdown)
    /\ WF_vars(RecvClosed)
    /\ WF_vars(HttpOk \/ HttpErr)
    /\ WF_vars(SleepDone)
    /\ WF_vars(ShutdownJoin)

TypeOK ==
    /\ wpc \in {"recv", "send", "sleep", "done", "panicked"}
    /\ hpc \in {"idle", "joining", "returned", "send_panicked",
                "join_panicked", "dropped"}
    /\ retries \in 0..MAX_RETRIES
    /\ message \in {0} \cup Ids
    /\ producers \in 0..NumProducers
    /\ rx_open = (wpc \in {"recv", "send", "sleep"})

----------------------------------------------------------------------------
\* Vocabulary of the properties

\* The positions of Data messages that entered the queue.
Accepted == {i \in Ids : i < nextId /\ i # shutdownId /\ i \notin rejected}

\* The delivery cycle of message i has ended by success or by exhaustion.
CycleEnded(i) == outcome[i] \in {"delivered", "dropped"}

Terminated == wpc \in {"done", "panicked"}

----------------------------------------------------------------------------
\* C1: every Data message that entered the queue ahead of the Shutdown
\* sentinel has had at least one POST attempt by the time the worker task
\* has terminated. Stated here for payloads that serialize, so that only the
\* delivery path decides it.
C1_AttemptedBeforeExit ==
    (Terminated /\ shutdownId # 0) =>
        \A i \in Ids :
            (i < shutdownId /\ (\A j \in Ids : outcome[j] # "unserializable"))
                => attempts[i] >= 1

\* C2: once shutdown() has returned, the worker task is terminated and no
\* later step dequeues a message or issues an HTTP attempt, while producers
\* with live senders go on sending.
C2_NothingAfterShutdownReturns ==
    [][hpc = "returned" =>
        /\ wpc = "done" /\ wpc' = "done"
        /\ ~rx_open /\ ~rx_open'
        /\ dequeued' = dequeued
        /\ attempts' = attempts
        /\ queue' = queue]_vars

\* C2 witness: shutdown() has returned and a producer with a live sender has
\* sent a message since.
C2_Witness == hpc = "returned" /\ producers > 0 /\ lateSends > 0

\* C3: each message is dequeued at most once and delivery cycles run in
\* arrival order: no attempt is issued for a message while the cycle of a
\* Data message that arrived before it has not ended.
C3_FifoSingleCycle ==
    /\ \A i \in Ids : dequeued[i] <= 1
    /\ \A i, j \in Ids :
        (i \in Accepted /\ i < j /\ attempts[j] > 0) => CycleEnded(i)
    /\ (message # 0) =>
        /\ dequeued[message] = 1
        /\ \A i \in Accepted : i < message => CycleEnded(i)

\* C3 witness: a second message is in delivery after the first one, which
\* needed retries, has finished its cycle.
C3_Witness ==
    /\ attempts[1] > 1 /\ CycleEnded(1)
    /\ message = 2 /\ wpc = "send"

\* C4: a Data message whose every attempt fails at the transport level gets
\* exactly MAX_RETRIES attempts, never more, and is then dropped.
C4_ExactlyMaxRetries ==
    \A i \in Ids :
        /\ attempts[i] <= MAX_RETRIES
        /\ (outcome[i] = "dropped") => (attempts[i] = MAX_RETRIES /\ response[i] = 0)
        /\ (i \in Accepted /\ dequeued[i] = 1 /\ message # i /\ response[i] = 0
                /\ outcome[i] # "unserializable")
            => (outcome[i] = "dropped" /\ attempts[i] = MAX_RETRIES)

\* C4 witness: a message has been dropped after exhausting its attempts.
C4_Witness == \E i \in Ids : outcome[i] = "dropped" /\ attempts[i] = MAX_RETRIES

\* C5: a message answered on its k-th attempt has had exactly k attempts and
\* k-1 sleeps and the worker is back waiting on the queue; with one Data
\* message answered on the first attempt and then Shutdown, shutdown()
\* returns without error.
C5_AnsweredOnKth ==
    /\ \A i \in Ids :
        response[i] # 0 =>
            /\ attempts[i] = sleeps[i] + 1
            /\ outcome[i] = "delivered"
    /\ (nextId = 3 /\ shutdownId = 2 /\ response[1] # 0 /\ attempts[1] = 1
            /\ hpc # "joining")
        => hpc = "returned"

\* C6: whenever an attempt completes with an HTTP response, whatever its
\* status, the worker issues no further attempt for the message and goes
\* back to the queue for the next message.
C6_AnyResponseEndsCycle ==
    [][(wpc = "send" /\ response'[message] # 0) =>
        /\ wpc' = "recv"
        /\ rx_open'
        /\ attempts' = attempts]_vars

\* C7: retry exhaustion is not fatal: the step that drops a message leaves
\* the worker running, waiting on the queue with the messages behind the
\* dropped one still in it, and the message received next is the one at the
\* front.
C7_ExhaustionNotFatal ==
    [][\A i \in Ids :
        (outcome[i] # "dropped" /\ outcome'[i] = "dropped") =>
            /\ wpc' = "recv"
            /\ rx_open'
            /\ queue' = queue]_vars

\* C7 witness: the first message was dropped after exhaustion and the message
\* queued behind it has been attempted.
C7_Witness == outcome[1] = "dropped" /\ attempts[2] >= 1

\* C8: every message dropped after retry exhaustion has a report event.
C8_DropReported ==
    \A i \in Ids :
        outcome[i] = "dropped" =>
            \E k \in 1..Len(log) : log[k] = <<"dropped", i>>

\* C9: once the worker has dequeued Shutdown it is terminated, and no message
\* behind the Shutdown in the queue, or sent afterwards, is ever dequeued or
\* attempted.
C9_ShutdownStopsWorker ==
    shutdownId # 0 =>
        /\ dequeued[shutdownId] <= 1
        /\ dequeued[shutdownId] = 1 => (wpc = "done" /\ ~rx_open)
        /\ \A i \in Ids :
            i > shutdownId => (dequeued[i] = 0 /\ attempts[i] = 0)

\* C9 witness: Shutdown was dequeued while a Data message sat behind it.
C9_Witness ==
    /\ shutdownId # 0 /\ dequeued[shutdownId] = 1
    /\ \E k \in 1..Len(queue) : queue[k].tag = "Data" /\ queue[k].id > shutdownId

\* C10: shutdown() ends as a normal return only when the Shutdown message was
\* accepted by the channel and the worker task ended without a panic; a
\* receiver already dropped at the send, or a panicked task at the join, ends
\* it with a panic.
C10_ShutdownSurfacesFailure ==
    /\ (hpc \notin {"idle", "dropped"} /\ shutdownId = 0) => hpc = "send_panicked"
    /\ (hpc \in {"returned", "join_panicked"} /\ wpc = "panicked")
        => hpc = "join_panicked"
    /\ hpc = "returned" => (shutdownId # 0 /\ wpc = "done")

\* C10 witness (a): shutdown() was called after the worker had panicked and
\* dropped its receiver.
C10_Witness == hpc = "send_panicked" /\ wpc = "panicked" /\ ~rx_open

\* C10 case (b): the join met a task that panicked after Shutdown was sent.
C10_JoinPanicReached == hpc = "join_panicked" /\ shutdownId # 0

----------------------------------------------------------------------------
\* Message i is in delivery: attempted, and its cycle has not ended.
InDelivery(i) == attempts[i] > 0 /\ outcome[i] = "none"

\* C11: retries never block producers and never overlap messages: a send made
\* while the worker is in an attempt or a backoff sleep is accepted at once
\* and leaves the worker where it is; at most one message is in delivery, and
\* no message waiting in the queue has been attempted.
C11_RetriesDoNotBlockOrOverlap ==
    /\ [](/\ \A i \in Ids : InDelivery(i) => (i = message /\ wpc \in {"send", "sleep"})
          /\ \A k \in 1..Len(queue) :
                queue[k].tag = "Data" =>
                    (attempts[queue[k].id] = 0 /\ queue[k].id # message))
    /\ [][(wpc \in {"send", "sleep"} /\ nextId' = nextId + 1
                /\ shutdownId' = shutdownId) =>
            /\ Len(queue') = Len(queue) + 1
            /\ queue'[Len(queue')].tag = "Data"
            /\ queue'[Len(queue')].id = nextId
            /\ rejected' = rejected
            /\ wpc' = wpc /\ message' = message /\ retries' = retries
            /\ attempts' = attempts]_vars

\* C11 witness: the worker is in a backoff sleep of a retried message while a
\* newer Data message waits in the queue, unattempted.
C11_Witness ==
    /\ wpc = "sleep" /\ retries >= 1
    /\ \E k \in 1..Len(queue) :
        queue[k].tag = "Data" /\ queue[k].id > message /\ attempts[queue[k].id] = 0

\* C12: the sleep after the failed attempt with 0-based index n lasts
\* 100 * 2^n ms, retries is incremented only after the sleep, and a message
\* that exhausts its attempts has slept 10 times, 102300 ms in total.
C12_BackoffSchedule ==
    /\ wpc = "sleep" =>
        /\ delay = 100 * 2^retries
        /\ sleeps[message] = retries + 1
        /\ attempts[message] = retries + 1
    /\ wpc = "send" =>
        /\ sleeps[message] = retries
        /\ attempts[message] = retries + 1
    /\ \A i \in Ids :
        /\ slept[i] = 100 * (2^sleeps[i] - 1)
        /\ outcome[i] = "dropped" => (sleeps[i] = 10 /\ slept[i] = 102300)

\* C12 witness: a message has gone through ten sleeps, 102300 ms in all.
C12_Witness == \E i \in Ids : sleeps[i] = 10 /\ slept[i] = 102300

\* C13 (as claimed): Delivering goes to Backoff only if attempts remain, the
\* failure of the last allowed attempt goes straight to Running, and Backoff
\* always returns to Delivering.
C13_LastFailureSkipsBackoff ==
    [][/\ (wpc = "send" /\ wpc' = "sleep") => attempts[message] < MAX_RETRIES
       /\ (wpc = "send" /\ attempts[message] = MAX_RETRIES /\ wpc' # "send")
            => wpc' \in {"recv", "panicked"}
       /\ (wpc = "sleep" /\ wpc' # "sleep") => wpc' = "send"]_vars

\* C13 (amended): every transport failure, that of the last allowed attempt
\* included, takes Delivering to Backoff; Backoff returns to Delivering of
\* the same message while attempts remain and goes to Running, the message
\* dropped, after the sleep that follows the last allowed attempt.
C13_BackoffAfterEveryFailure ==
    [][/\ (wpc = "send" /\ wpc' # "send" /\ response' = response)
            => (wpc' = "sleep" /\ message' = message)
       /\ (wpc = "sleep" /\ wpc' # "sleep") =>
            IF attempts[message] < MAX_RETRIES
            THEN wpc' = "send" /\ message' = message
            ELSE wpc' = "recv" /\ outcome'[message] = "dropped"]_vars

\* C13 witness: the worker is in the backoff that follows the last allowed
\* attempt.
C13_Witness == wpc = "sleep" /\ attempts[message] = MAX_RETRIES

\* C14 (as claimed): the worker is Terminated only after dequeuing Shutdown
\* or after finding the queue closed and empty.
C14_TerminatesOnlyOnShutdownOrClosure ==
    Terminated =>
        \/ (shutdownId # 0 /\ dequeued[shutdownId] = 1)
        \/ (tx_count = 0 /\ queue = <<>>)

\* C14 (amended): the worker task ends normally only by dequeuing Shutdown or
\* by finding the queue closed and empty; otherwise it ends only by a panic,
\* on a payload that fails to serialize or on a response whose body cannot
\* be read; once Terminated it stays Terminated.
C14_TerminationCauses ==
    [][/\ Terminated => (wpc' = wpc /\ ~rx_open /\ ~rx_open')
       /\ (~Terminated /\ wpc' = "done") =>
            /\ wpc = "recv"
            /\ \/ /\ queue # <<>>
                  /\ Head(queue).tag = "Shutdown"
                  /\ dequeued'[Head(queue).id] = 1
               \/ (queue = <<>> /\ tx_count = 0)
       /\ (~Terminated /\ wpc' = "panicked") =>
            \E i \in Ids :
                /\ outcome[i] = "none"
                /\ outcome'[i] \in {"unserializable", "bodyfail"}]_vars

\* C14 witness: the worker ended on Shutdown while a producer still holds a
\* live sender.
C14_Witness ==
    wpc = "done" /\ shutdownId # 0 /\ dequeued[shutdownId] = 1 /\ producers > 0

C16_FailureRecorded ==
    \A i \in Ids :
        Cardinality({k \in 1..Len(log) : log[k] = <<"failed", i>>}) = sleeps[i]

\* C17: a Data message whose payload fails to serialize is never POSTed and
\* never retried, the worker task aborts instead of going on to the next
\* message, and shutdown() does not return normally afterwards.
C17_SerializationFailureFatal ==
    \A i \in Ids :
        outcome[i] = "unserializable" =>
            /\ dequeued[i] = 1
            /\ attempts[i] = 0 /\ sleeps[i] = 0 /\ response[i] = 0
            /\ wpc = "panicked" /\ ~rx_open
            /\ \A j \in Ids : j > i => (dequeued[j] = 0 /\ attempts[j] = 0)
            /\ hpc # "returned"
            /\ (hpc \notin {"idle", "dropped", "joining"})
                => hpc \in {"send_panicked", "join_panicked"}

\* C17 witness: a payload failed to serialize with a message queued behind
\* it, and the shutdown() called afterwards ended in a panic.
C17_Witness ==
    /\ \E i \in Ids : outcome[i] = "unserializable"
    /\ queue # <<>>
    /\ hpc = "send_panicked"

\* C20: when a response arrives and reading its body fails the worker task
\* panics: nothing in the queue is ever attempted, later sends by producers
\* fail, and shutdown() does not return normally.
C20_BodyFailurePanics ==
    /\ [](\A i \in Ids :
            outcome[i] = "bodyfail" =>
                /\ response[i] # 0
                /\ wpc = "panicked" /\ ~rx_open
                /\ \A j \in Ids : j > i => (dequeued[j] = 0 /\ attempts[j] = 0)
                /\ \A k \in 1..Len(queue) :
                        dequeued[queue[k].id] = 0 /\ attempts[queue[k].id] = 0
                /\ hpc # "returned")
    /\ [][(\E i \in Ids : outcome[i] = "bodyfail") =>
            /\ queue' = queue
            /\ attempts' = attempts /\ dequeued' = dequeued
            /\ (nextId' # nextId) => (nextId \in rejected')
            /\ hpc' # "returned"]_vars

\* C20 witness: the body of a response could not be read, a message is left
\* in the queue, a later send was rejected and shutdown() ended in a panic.
C20_Witness ==
    /\ \E i \in Ids : outcome[i] = "bodyfail"
    /\ queue # <<>>
    /\ rejected # {}
    /\ hpc \in {"send_panicked", "join_panicked"}

C19_ShutdownWaitsForCycle ==
    [][(wpc \in {"send", "sleep"} /\ shutdownId # 0) =>
        /\ hpc = "joining" /\ hpc' = "joining"
        /\ wpc' # "done"
        /\ dequeued[shutdownId] = 0 /\ dequeued'[shutdownId] = 0
        /\ \E k \in 1..Len(queue') : queue'[k].tag = "Shutdown"
        /\ (message' # message) =>
            \/ (wpc = "send" /\ response'[message] # 0)
            \/ /\ wpc = "sleep"
               /\ attempts[message] = MAX_RETRIES
               /\ sleeps[message] = MAX_RETRIES
               /\ wpc' = "recv"]_vars

\* C19 witness: Shutdown is in the queue and shutdown() is suspended while the
\* message in delivery is in the sleep after its last attempt.
C19_Witness ==
    /\ wpc = "sleep" /\ sleeps[message] = MAX_RETRIES
    /\ shutdownId # 0 /\ hpc = "joining"
====
